---------------------------- MODULE Spec2Model ----------------------------
(***************************************************************************)
(* Model of wrangling_scripts/wrangle_data.py: the data shaping behind the *)
(* COVID-19 vaccination dashboard (clean_data, vax_per_continent,          *)
(* vax_time_series, return_figures).                                       *)
(*                                                                         *)
(* A DataFrame is a record [columns, rows]: the ordered column names and   *)
(* the sequence of rows, each row a function from column name to cell.     *)
(* A numeric cell is a float64 modelled as an extended rational [n, d]:    *)
(* d > 0 and gcd(n, d) = 1 for a finite value, 1/0 and -1/0 for the two    *)
(* infinities, 0/0 for NaN.  Rounding of float64 is not modelled: finite   *)
(* arithmetic is exact.  A cell of an object (string) column is a string,  *)
(* the empty string standing for the NaN read_csv gives an empty field.    *)
(***************************************************************************)
EXTENDS Integers, Sequences, FiniteSets, TLC

VARIABLES csv, pc, df, agg, world_vax, trace1, trace2, owid, bra,
          continent, vpc_agg, vpc_world, cont_vax, countries, graph_five, raised

vars == <<csv, pc, df, agg, world_vax, trace1, trace2, owid, bra,
          continent, vpc_agg, vpc_world, cont_vax, countries, graph_five, raised>>

(***************************************************************************)
(* Bounds of the model.                                                    *)
(***************************************************************************)
MaxRows == 3
MaxCountries == 2

(***************************************************************************)
(* float64 cells.                                                          *)
(***************************************************************************)
NaN == [n |-> 0, d |-> 0]
Inf == [n |-> 1, d |-> 0]
NegInf == [n |-> -1, d |-> 0]
Num(i) == [n |-> i, d |-> 1]

Abs(i) == IF i < 0 THEN -i ELSE i
Sign(i) == IF i < 0 THEN -1 ELSE IF i > 0 THEN 1 ELSE 0

RECURSIVE GCD(_, _)
GCD(a, b) == IF b = 0 THEN a ELSE GCD(b, a % b)

\* the finite value n/d (d # 0) in lowest terms with a positive denominator
Norm(n, d) ==
    LET g == GCD(Abs(n), Abs(d))
    IN [n |-> Sign(d) * (n \div g), d |-> Abs(d) \div g]

IsNaN(a) == a.n = 0 /\ a.d = 0
IsInf(a) == a.n # 0 /\ a.d = 0
IsZero(a) == a.n = 0 /\ a.d # 0

\* a <= b on floats; FALSE whenever an operand is NaN
FLe(a, b) ==
    /\ ~IsNaN(a)
    /\ ~IsNaN(b)
    /\ IF IsInf(a) \/ IsInf(b)
       THEN \/ a = b
            \/ a = NegInf
            \/ b = Inf
       ELSE a.n * b.d <= b.n * a.d

FNeg(a) == [n |-> -a.n, d |-> a.d]

FAdd(a, b) ==
    IF IsNaN(a) \/ IsNaN(b) THEN NaN
    ELSE IF IsInf(a) /\ IsInf(b) THEN (IF a = b THEN a ELSE NaN)
    ELSE IF IsInf(a) THEN a
    ELSE IF IsInf(b) THEN b
    ELSE Norm(a.n * b.d + b.n * a.d, a.d * b.d)

FSub(a, b) == FAdd(a, FNeg(b))

FMul(a, b) ==
    IF IsNaN(a) \/ IsNaN(b) THEN NaN
    ELSE IF IsInf(a) \/ IsInf(b)
         THEN (IF IsZero(a) \/ IsZero(b) THEN NaN
               ELSE [n |-> Sign(a.n) * Sign(b.n), d |-> 0])
    ELSE Norm(a.n * b.n, a.d * b.d)

\* IEEE division as numpy performs it on float64 columns: x/0 is +-inf for
\* x # 0 and NaN for x = 0; no exception is raised
FDiv(a, b) ==
    IF IsNaN(a) \/ IsNaN(b) THEN NaN
    ELSE IF IsInf(b) THEN (IF IsInf(a) THEN NaN ELSE Num(0))
    ELSE IF IsZero(b) THEN (IF IsZero(a) THEN NaN ELSE [n |-> Sign(a.n), d |-> 0])
    ELSE IF IsInf(a) THEN [n |-> Sign(a.n) * Sign(b.n), d |-> 0]
    ELSE Norm(a.n * b.d, a.d * b.n)

(***************************************************************************)
(* Object (string) cells.  StrOrder lists every string of the model in     *)
(* Python's str ordering (code point order).                               *)
(***************************************************************************)
NA == ""

StrOrder == <<"ARG", "Africa", "Argentina", "Asia", "Atlantis", "BRA",
              "Brazil", "CAN", "CHL", "Canada", "Chile", "DEU", "Europe",
              "FRA", "France", "Germany", "IND", "India", "MEX", "Mexico",
              "North America", "OWID_WRL", "RUS", "Russia", "South Africa",
              "South America", "TUR", "Turkey", "USA", "United States",
              "World", "ZAF", "south america">>

\* the position of each string in StrOrder
RankOf == [s \in {StrOrder[i] : i \in 1..Len(StrOrder)} |->
             CHOOSE i \in 1..Len(StrOrder) : StrOrder[i] = s]

Rank(s) == RankOf[s]

IsNaStr(s) == s = NA

\* the columns pandas reads as object dtype; every other column is float64
ObjectCols == {"iso_code", "continent", "location", "date"}

\* Series.isna() on one cell of column c
IsNaCell(c, v) == IF c \in ObjectCols THEN IsNaStr(v) ELSE IsNaN(v)

\* v <= w inside column c, both cells non-null
CellLe(c, v, w) == IF c \in ObjectCols THEN Rank(v) <= Rank(w) ELSE FLe(v, w)

\* Series == scalar on one cell of an object column: NaN equals nothing
StrEq(v, s) == ~IsNaStr(v) /\ v = s

(***************************************************************************)
(* pandas primitives.                                                      *)
(***************************************************************************)
Range(s) == {s[i] : i \in 1..Len(s)}

Min(a, b) == IF a <= b THEN a ELSE b

EmptyFrame == [columns |-> <<>>, rows |-> <<>>]

\* list(frame.c): the cells of column c in row order
Column(frame, c) == [i \in 1..Len(frame.rows) |-> frame.rows[i][c]]

\* frame[[c1, ..., ck]]: a new frame of the listed columns
SelectCols(frame, cs) ==
    [columns |-> cs,
     rows |-> [i \in 1..Len(frame.rows) |-> [c \in Range(cs) |-> frame.rows[i][c]]]]

\* the rows of rs that satisfy Keep, in the order of rs (boolean indexing,
\* lines 26, 47, 48, 89, 90, 175, 176)
FilterRows(rs, Keep(_)) == SelectSeq(rs, Keep)

\* frame[mask]: a new frame holding the rows whose mask is True (same lines)
Mask(frame, Keep(_)) == [columns |-> frame.columns, rows |-> FilterRows(frame.rows, Keep)]

\* frame[c] = values, on a frame that holds column c or not: the column is
\* overwritten, or appended as the last column (lines 24, 45, 174)
SetColumn(frame, c, Val(_)) ==
    [columns |-> IF c \in Range(frame.columns) THEN frame.columns
                 ELSE Append(frame.columns, c),
     rows |-> [i \in 1..Len(frame.rows) |->
                 [k \in Range(frame.columns) \cup {c} |->
                    IF k = c THEN Val(frame.rows[i]) ELSE frame.rows[i][k]]]]

\* GroupBy.max(skipna=False): one null cell makes the maximum null
MaxOf_propagate(c, rs) ==
    LET vals == {rs[i][c] : i \in 1..Len(rs)}
    IN IF \E v \in vals : IsNaCell(c, v) THEN (IF c \in ObjectCols THEN NA ELSE NaN)
       ELSE CHOOSE v \in vals : \A w \in vals : CellLe(c, w, v)

\* GroupBy.max() of column c over the rows rs of one group: the largest
\* non-null cell, NaN when every cell is null
MaxOf(c, rs) ==
    LET vals == {rs[i][c] : i \in {j \in 1..Len(rs) : ~IsNaCell(c, rs[j][c])}}
    IN IF vals = {} THEN (IF c \in ObjectCols THEN NA ELSE NaN)
       ELSE CHOOSE v \in vals : \A w \in vals : CellLe(c, w, v)

\* the distinct non-null keys of column key, ascending (groupby sort=True,
\* dropna=True)
RECURSIVE SortKeys(_)
SortKeys(ks) ==
    IF ks = {} THEN <<>>
    ELSE LET k == CHOOSE x \in ks : \A y \in ks : Rank(x) <= Rank(y)
         IN <<k>> \o SortKeys(ks \ {k})

GroupKeys(frame, key) ==
    SortKeys({frame.rows[i][key] : i \in 1..Len(frame.rows)} \ {NA})

\* frame.groupby([key])[cs].max().reset_index(drop=True): one row per key,
\* in key order, each listed column aggregated on its own
GroupByMax(frame, key, cs) ==
    LET keys == GroupKeys(frame, key)
        Group(k) == FilterRows(frame.rows, LAMBDA r : r[key] = k)
    IN [columns |-> cs,
        rows |-> [g \in 1..Len(keys) |-> [c \in Range(cs) |-> MaxOf(c, Group(keys[g]))]]]

\* rows sorted by column c descending, equal keys in their incoming order
RECURSIVE InsertDesc(_, _, _)
InsertDesc(sorted, r, c) ==
    IF sorted = <<>> THEN <<r>>
    ELSE IF FLe(r[c], Head(sorted)[c]) THEN <<Head(sorted)>> \o InsertDesc(Tail(sorted), r, c)
    ELSE <<r>> \o sorted

RECURSIVE SortDesc(_, _)
SortDesc(rs, c) ==
    IF rs = <<>> THEN <<>>
    ELSE InsertDesc(SortDesc(SubSeq(rs, 1, Len(rs) - 1), c), rs[Len(rs)], c)

\* frame.sort_values(by=c, ascending=False): na_position defaults to 'last',
\* so the NaN rows follow the sorted rows, in their incoming order.  Equal
\* keys are kept in their incoming order, which is what numpy's default sort
\* does on arrays this short; on longer arrays the order of equal keys is
\* whatever that sort produces, the same for the same input
SortValuesDesc(frame, c) ==
    [columns |-> frame.columns,
     rows |-> SortDesc(FilterRows(frame.rows, LAMBDA r : ~IsNaN(r[c])), c)
              \o FilterRows(frame.rows, LAMBDA r : IsNaN(r[c]))]

\* frame.head(n)
HeadRows(frame, n) ==
    [columns |-> frame.columns, rows |-> SubSeq(frame.rows, 1, Min(n, Len(frame.rows)))]

(***************************************************************************)
(* The functions of wrangle_data.py.                                       *)
(***************************************************************************)
HeadN == 10
Hundred == 100

\* pd.read_csv(path): a fresh frame holding the file's table
read_csv(file) == [columns |-> file.columns, rows |-> file.rows]

cols == <<"iso_code", "continent", "location", "people_vaccinated",
          "people_fully_vaccinated", "people_vaccinated_per_hundred",
          "people_fully_vaccinated_per_hundred">>

vpc_cols == <<"iso_code", "continent", "location", "people_vaccinated",
              "people_fully_vaccinated", "people_vaccinated_per_hundred",
              "people_fully_vaccinated_per_hundred">>

\* clean_data, lines 20-23: world_vax after the aggregation
cd_grouped(dataset, keepcols) == GroupByMax(read_csv(dataset), "iso_code", keepcols)

\* clean_data without line 26: the rows without a continent stay
clean_data_keepna(dataset, keepcols) ==
    LET grouped == cd_grouped(dataset, keepcols)
        derived == SetColumn(grouped, "people_partly_vaccinated",
                       LAMBDA r : FSub(r["people_vaccinated"], r["people_fully_vaccinated"]))
    IN SortValuesDesc(derived, "people_vaccinated")

\* clean_data with the operands of line 24 exchanged
clean_data_swapped(dataset, keepcols) ==
    LET grouped == cd_grouped(dataset, keepcols)
        derived == SetColumn(grouped, "people_partly_vaccinated",
                       LAMBDA r : FSub(r["people_fully_vaccinated"], r["people_vaccinated"]))
        sorted == SortValuesDesc(derived, "people_vaccinated")
    IN Mask(sorted, LAMBDA r : ~IsNaStr(r["continent"]))

\* clean_data without line 25: the rows stay in region code order
clean_data_unsorted(dataset, keepcols) ==
    LET grouped == cd_grouped(dataset, keepcols)
        derived == SetColumn(grouped, "people_partly_vaccinated",
                       LAMBDA r : FSub(r["people_vaccinated"], r["people_fully_vaccinated"]))
    IN Mask(derived, LAMBDA r : ~IsNaStr(r["continent"]))

clean_data(dataset, keepcols) ==
    LET grouped == cd_grouped(dataset, keepcols)
        derived == SetColumn(grouped, "people_partly_vaccinated",
                       LAMBDA r : FSub(r["people_vaccinated"], r["people_fully_vaccinated"]))
        sorted == SortValuesDesc(derived, "people_vaccinated")
    IN Mask(sorted, LAMBDA r : ~IsNaStr(r["continent"]))

\* vax_per_continent, lines 42-44: world_vax after the aggregation
vpc_grouped(data) == GroupByMax(data, "iso_code", vpc_cols)

\* vax_per_continent, lines 45-47: world_vax before the continent filter
vpc_world_vax(data) ==
    LET derived == SetColumn(vpc_grouped(data), "people_partly_vaccinated",
                       LAMBDA r : FSub(r["people_vaccinated"], r["people_fully_vaccinated"]))
        sorted == SortValuesDesc(derived, "people_vaccinated")
    IN Mask(sorted, LAMBDA r : ~IsNaStr(r["continent"]))

\* str.lower() on the continent names of the model
Lower(s) ==
    IF s = "South America" THEN "south america"
    ELSE IF s = "Asia" THEN "asia"
    ELSE IF s = "Europe" THEN "europe"
    ELSE IF s = "Africa" THEN "africa"
    ELSE IF s = "North America" THEN "north america"
    ELSE s

\* line 48 comparing the names without regard to case
vax_per_continent_nocase(data, cont) ==
    Mask(vpc_world_vax(data), LAMBDA r : ~IsNaStr(r["continent"]) /\ Lower(r["continent"]) = Lower(cont))

\* vax_per_continent, line 48: cont_vax, the rows the map is drawn from
vax_per_continent(data, cont) ==
    Mask(vpc_world_vax(data), LAMBDA r : StrEq(r["continent"], cont))

\* lines 89-90 without the isna filter of line 90
country_vax_keepna(dataset, country) ==
    SelectCols(Mask(dataset, LAMBDA r : StrEq(r["location"], country)),
               <<"iso_code", "date", "new_vaccinations_per_hundred">>)

\* vax_time_series, lines 89-90: the rows of one country with a metric
country_vax(dataset, country) ==
    LET named == Mask(dataset, LAMBDA r : StrEq(r["location"], country))
        picked == SelectCols(named, <<"iso_code", "date", "new_vaccinations_per_hundred">>)
    IN Mask(picked, LAMBDA r : ~IsNaN(r["new_vaccinations_per_hundred"]))

\* vax_time_series, lines 92-102: the trace of one country; iloc[0] needs a
\* first row
Scatter(cv) ==
    [x |-> Column(cv, "date"),
     y |-> Column(cv, "new_vaccinations_per_hundred"),
     name |-> cv.rows[1]["iso_code"]]

\* vax_time_series: iloc[0] on a frame without rows raises IndexError, which
\* nothing catches; the graph built so far is lost with the call
RECURSIVE vts_loop(_, _, _)
vts_loop(cs, dataset, graph) ==
    IF cs = <<>> THEN [raised |-> "none", graph |-> graph]
    ELSE LET cv == country_vax(dataset, Head(cs))
         IN IF cv.rows = <<>> THEN [raised |-> "IndexError", graph |-> <<>>]
            ELSE vts_loop(Tail(cs), dataset, Append(graph, Scatter(cv)))

vax_time_series(cs, dataset) == vts_loop(cs, dataset, <<>>)

\* a bar trace that takes the ten largest of its own column
bar_trace_resorted(snapshot, ycol) ==
    [x |-> Column(HeadRows(SortValuesDesc(snapshot, ycol), HeadN), "location"),
     y |-> Column(HeadRows(SortValuesDesc(snapshot, ycol), HeadN), ycol)]

\* return_figures, lines 150-160: one bar trace of the first ten rows
bar_trace(snapshot, ycol) ==
    [x |-> Column(HeadRows(snapshot, HeadN), "location"),
     y |-> Column(HeadRows(snapshot, HeadN), ycol)]

\* return_figures, line 174: the rate column, assigned into the frame
with_rate(frame) ==
    SetColumn(frame, "new_vaccinations_per_hundred",
        LAMBDA r : FMul(FDiv(r["new_vaccinations"], r["population"]), Num(Hundred)))

\* return_figures, lines 175-179: the Brazil series
bra_series(frame) ==
    LET picked == SelectCols(Mask(frame, LAMBDA r : StrEq(r["iso_code"], "BRA")),
                             <<"date", "new_vaccinations">>)
        kept == Mask(picked, LAMBDA r : ~IsNaN(r["new_vaccinations"]))
    IN [x |-> Column(kept, "date"), y |-> Column(kept, "new_vaccinations")]

(***************************************************************************)
(* Inputs: the table of data/owid-covid-data.csv, and the arguments of     *)
(* vax_per_continent and vax_time_series.  return_figures passes the       *)
(* literals of lines 195 and 198; both functions take any argument, so the *)
(* model draws them from sets that hold the literals.                      *)
(***************************************************************************)
SrcCols == <<"iso_code", "continent", "location", "date", "people_vaccinated",
             "people_fully_vaccinated", "people_vaccinated_per_hundred",
             "people_fully_vaccinated_per_hundred", "new_vaccinations",
             "population">>

Regions == <<[iso |-> "ARG", location |-> "Argentina", continent |-> "South America"],
             [iso |-> "BRA", location |-> "Brazil", continent |-> "South America"],
             [iso |-> "CAN", location |-> "Canada", continent |-> "North America"],
             [iso |-> "CHL", location |-> "Chile", continent |-> "South America"],
             [iso |-> "DEU", location |-> "Germany", continent |-> "Europe"],
             [iso |-> "FRA", location |-> "France", continent |-> "Europe"],
             [iso |-> "IND", location |-> "India", continent |-> "Asia"],
             [iso |-> "MEX", location |-> "Mexico", continent |-> "North America"],
             [iso |-> "OWID_WRL", location |-> "World", continent |-> NA],
             [iso |-> "RUS", location |-> "Russia", continent |-> "Europe"],
             [iso |-> "TUR", location |-> "Turkey", continent |-> "Asia"],
             [iso |-> "USA", location |-> "United States", continent |-> "North America"],
             [iso |-> "ZAF", location |-> "South Africa", continent |-> "Africa"]>>

Region(code) == CHOOSE r \in Range(Regions) : r.iso = code

Dates == <<"2021-01-01", "2021-01-02", "2021-01-03", "2021-01-04", "2021-01-05",
           "2021-01-06", "2021-01-07", "2021-01-08", "2021-01-09", "2021-01-10",
           "2021-01-11", "2021-01-12", "2021-01-13", "2021-01-14">>

\* one observation: a region and its continent cell, the two cumulative
\* counters (the per-hundred columns repeat them), new vaccinations and
\* population
Obs(code, cont, pv, pf, nv, pop) ==
    [iso |-> code, cont |-> cont, pv |-> pv, pf |-> pf, nv |-> nv, pop |-> pop]

SrcRow(o, date) ==
    [iso_code |-> o.iso, continent |-> o.cont, location |-> Region(o.iso).location,
     date |-> date, people_vaccinated |-> o.pv, people_fully_vaccinated |-> o.pf,
     people_vaccinated_per_hundred |-> o.pv, people_fully_vaccinated_per_hundred |-> o.pf,
     new_vaccinations |-> o.nv, population |-> o.pop]

\* the table whose i-th row is the observation obs[i] on the i-th date
Table(obs) == [columns |-> SrcCols, rows |-> [i \in 1..Len(obs) |-> SrcRow(obs[i], Dates[i])]]

SeqsUpTo(S, n) == UNION {[1..k -> S] : k \in 0..n}

\* the observations of the generated tables: a region with or without a
\* continent, and one of three profiles <<people_vaccinated,
\* people_fully_vaccinated, new_vaccinations, population>> that between them
\* hold a null in every column, a zero population, and two different values
\* of people_vaccinated
Profiles ==
    {<<Num(2), NaN, NaN, Num(200)>>,
     <<Num(1), Num(1), Num(50), Num(200)>>,
     <<NaN, Num(1), Num(50), Num(0)>>}

SrcObs ==
    {Obs(code, Region(code).continent, p[1], p[2], p[3], p[4]) :
        code \in {"ARG", "BRA", "OWID_WRL"}, p \in Profiles}

\* regions A and B of the end-to-end example: A with a continent, B without
ExampleAB ==
    <<Obs("ARG", "South America", Num(100), Num(40), NaN, Num(200)),
      Obs("OWID_WRL", NA, Num(200), Num(150), NaN, Num(200))>>

\* one observation per region; twelve regions have a continent, one has no
\* people_vaccinated, several share a people_vaccinated
ExampleAll ==
    [i \in 1..Len(Regions) |->
        Obs(Regions[i].iso, Regions[i].continent,
            IF i = 6 THEN NaN ELSE Num((i * 5) % 7), Num(((i * 5) % 7) \div 2),
            Num(i), Num(200))]

\* a continent cell missing on one date, a continent spelled in lower case,
\* a null or zero denominator
ExampleDirty ==
    <<Obs("BRA", NA, Num(3), Num(1), Num(0), Num(0)),
      Obs("CHL", "south america", Num(2), Num(2), Num(50), NaN),
      Obs("BRA", "South America", Num(1), NaN, Num(50), Num(-200)),
      Obs("ARG", "South America", Num(3), Num(2), NaN, NaN),
      Obs("IND", "Asia", NaN, NaN, Num(7), Num(0)),
      Obs("IND", "Asia", NaN, NaN, Num(1), Num(3))>>

Tables ==
    {Table(obs) : obs \in SeqsUpTo(SrcObs, MaxRows) \cup {ExampleAB, ExampleAll, ExampleDirty}}

Continents == {"South America", "Asia"}

LiteralCountries == <<"India", "United States", "Russia", "Brazil", "Mexico", "Germany", "Turkey">>

\* "Atlantis" is the name of no row of any table
CountryNames == {"Brazil", "Atlantis"}

CountryLists ==
    SeqsUpTo(CountryNames, MaxCountries)
        \cup {<<"India">>, <<"Brazil", "India">>, <<"India", "Brazil">>, LiteralCountries}

(***************************************************************************)
(* return_figures, one action per view it builds.                          *)
(***************************************************************************)
NoTrace == [x |-> <<>>, y |-> <<>>]

Init ==
    /\ csv \in Tables
    /\ pc = "clean"
    /\ df = EmptyFrame
    /\ agg = EmptyFrame
    /\ world_vax = EmptyFrame
    /\ trace1 = NoTrace
    /\ trace2 = NoTrace
    /\ owid = EmptyFrame
    /\ bra = NoTrace
    /\ continent = NA
    /\ vpc_agg = EmptyFrame
    /\ vpc_world = EmptyFrame
    /\ cont_vax = EmptyFrame
    /\ countries = <<>>
    /\ graph_five = <<>>
    /\ raised = "none"

\* lines 127-129: world_vax = clean_data(path, cols)
CleanData ==
    /\ pc = "clean"
    /\ df' = read_csv(csv)
    /\ agg' = cd_grouped(csv, cols)
    /\ world_vax' = clean_data(csv, cols)
    /\ pc' = "bars"
    /\ UNCHANGED <<csv, trace1, trace2, owid, bra, continent, vpc_agg, vpc_world,
                   cont_vax, countries, graph_five, raised>>

\* lines 149-163: the two bar traces of the top ten
Bars ==
    /\ pc = "bars"
    /\ trace1' = bar_trace(world_vax, "people_partly_vaccinated")
    /\ trace2' = bar_trace(world_vax, "people_fully_vaccinated")
    /\ pc' = "rate"
    /\ UNCHANGED <<csv, df, agg, world_vax, owid, bra, continent, vpc_agg, vpc_world,
                   cont_vax, countries, graph_five, raised>>

\* lines 173-174: owid is loaded and the rate column is assigned into it
Rate ==
    /\ pc = "rate"
    /\ owid' = with_rate(read_csv(csv))
    /\ pc' = "bra"
    /\ UNCHANGED <<csv, df, agg, world_vax, trace1, trace2, bra, continent, vpc_agg,
                   vpc_world, cont_vax, countries, graph_five, raised>>

\* lines 175-179: the Brazil series
Bra ==
    /\ pc = "bra"
    /\ bra' = bra_series(owid)
    /\ pc' = "continent"
    /\ UNCHANGED <<csv, df, agg, world_vax, trace1, trace2, owid, continent, vpc_agg,
                   vpc_world, cont_vax, countries, graph_five, raised>>

\* vax_per_continent assigning the derived column of line 45 into data
VaxPerContinent_inplace ==
    /\ pc = "continent"
    /\ \E c \in Continents :
          /\ continent' = c
          /\ cont_vax' = vax_per_continent(owid, c)
    /\ vpc_agg' = vpc_grouped(owid)
    /\ vpc_world' = vpc_world_vax(owid)
    /\ owid' = SetColumn(owid, "people_partly_vaccinated",
                   LAMBDA r : FSub(r["people_vaccinated"], r["people_fully_vaccinated"]))
    /\ pc' = "series"
    /\ UNCHANGED <<csv, df, agg, world_vax, trace1, trace2, bra, countries,
                   graph_five, raised>>

\* line 195: vax_per_continent(owid, continent); data is owid itself
VaxPerContinent ==
    /\ pc = "continent"
    /\ \E c \in Continents :
          /\ continent' = c
          /\ cont_vax' = vax_per_continent(owid, c)
    /\ vpc_agg' = vpc_grouped(owid)
    /\ vpc_world' = vpc_world_vax(owid)
    /\ pc' = "series"
    /\ UNCHANGED <<csv, df, agg, world_vax, trace1, trace2, owid, bra, countries,
                   graph_five, raised>>

\* line 199: vax_time_series(countries, owid); dataset is owid itself
VaxTimeSeries ==
    /\ pc = "series"
    /\ \E cs \in CountryLists :
          LET r == vax_time_series(cs, owid)
          IN /\ countries' = cs
             /\ raised' = r.raised
             /\ graph_five' = r.graph
             /\ pc' = IF r.raised = "none" THEN "done" ELSE "failed"
    /\ UNCHANGED <<csv, df, agg, world_vax, trace1, trace2, owid, bra, continent,
                   vpc_agg, vpc_world, cont_vax>>

Next == CleanData \/ Bars \/ Rate \/ Bra \/ VaxPerContinent \/ VaxTimeSeries

Spec == Init /\ [][Next]_vars

(***************************************************************************)
(* Properties.                                                             *)
(***************************************************************************)
SnapshotBuilt == pc \notin {"clean"}
RateBuilt == pc \notin {"clean", "bars", "rate"}
ContinentBuilt == pc \in {"series", "done", "failed"}
SeriesCalled == pc \in {"done", "failed"}

\* the positions of the rows of owid named country
NamedRows(country) == {j \in 1..Len(owid.rows) : owid.rows[j]["location"] = country}

\* the positions of the rows of owid named country that carry a metric
MetricRows(country) ==
    {j \in NamedRows(country) : ~IsNaN(owid.rows[j]["new_vaccinations_per_hundred"])}

\* the k-th smallest member of the set of positions M
Kth(M, k) == CHOOSE j \in M : Cardinality({m \in M : m < j}) = k - 1

\* C1: a call of vax_time_series that names a country of no source row
\* completes, returns one series per requested country, and the series of
\* the absent country is empty
C1_AbsentCountryEmptySeries ==
    (SeriesCalled /\ \E i \in 1..Len(countries) : NamedRows(countries[i]) = {})
        => /\ raised = "none"
           /\ Len(graph_five) = Len(countries)
           /\ \A i \in 1..Len(countries) :
                 NamedRows(countries[i]) = {}
                     => graph_five[i].x = <<>> /\ graph_five[i].y = <<>>

\* C2: in every row new_vaccinations_per_hundred is 100 * new_vaccinations /
\* population when population is neither null nor zero, and null when
\* population is null or zero
C2_RateNullOnZeroPopulation ==
    RateBuilt =>
        \A i \in 1..Len(owid.rows) :
            LET r == owid.rows[i]
                nv == r["new_vaccinations"]
                pop == r["population"]
                rate == r["new_vaccinations_per_hundred"]
            IN IF IsNaN(pop) \/ IsZero(pop) THEN IsNaN(rate)
               ELSE IF IsNaN(nv) THEN IsNaN(rate)
               ELSE /\ rate.d > 0
                    /\ rate.n * pop.n * nv.d = Hundred * nv.n * pop.d * rate.d

SrcCodes(src) == {src.rows[j]["iso_code"] : j \in 1..Len(src.rows)}

\* cell is the largest non-null cell of column c over the rows of src with
\* region code code, or null when those rows hold no non-null cell
IsGroupMax(src, code, c, cell) ==
    LET vals == {src.rows[j][c] :
                    j \in {k \in 1..Len(src.rows) :
                             /\ src.rows[k]["iso_code"] = code
                             /\ ~IsNaCell(c, src.rows[k][c])}}
    IN IF vals = {} THEN IsNaCell(c, cell)
       ELSE cell \in vals /\ \A w \in vals : CellLe(c, w, cell)

\* no row of snap lacks a continent, and every region of src with a
\* continent on some row has exactly one row in snap
ContinentRowsOnly(snap, src) ==
    /\ \A i \in 1..Len(snap.rows) : snap.rows[i]["continent"] # NA
    /\ \A code \in SrcCodes(src) :
          (\E j \in 1..Len(src.rows) :
              src.rows[j]["iso_code"] = code /\ src.rows[j]["continent"] # NA)
              => Cardinality({i \in 1..Len(snap.rows) : snap.rows[i]["iso_code"] = code}) = 1

\* C4: the snapshot of clean_data and the one rebuilt in vax_per_continent
\* hold no row without a continent and exactly one row for every region
\* code of the source that has a continent; regions A (100, 40, continent X)
\* and B (200, 150, no continent) give the single row A with partly = 60
C4_SnapshotHasContinents ==
    /\ SnapshotBuilt => ContinentRowsOnly(world_vax, csv)
    /\ ContinentBuilt => ContinentRowsOnly(vpc_world, owid)
    /\ (SnapshotBuilt /\ csv = Table(ExampleAB)) =>
          /\ Len(world_vax.rows) = 1
          /\ world_vax.rows[1]["iso_code"] = "ARG"
          /\ world_vax.rows[1]["people_partly_vaccinated"] = Num(60)

\* both snapshots of the example of regions A and B are built
C4_Witness ==
    /\ ContinentBuilt
    /\ csv = Table(ExampleAB)
    /\ Len(agg.rows) = 2
    /\ Len(world_vax.rows) = 1
    /\ Len(vpc_world.rows) = 1

\* in every row of snap the derived cell is the exact difference of the
\* row's two counters, null when one of them is null, and the two counters
\* are the region's maxima over src
PartlyIsDifference(snap, src) ==
    \A i \in 1..Len(snap.rows) :
        LET r == snap.rows[i]
            pv == r["people_vaccinated"]
            pf == r["people_fully_vaccinated"]
            pp == r["people_partly_vaccinated"]
        IN /\ IsGroupMax(src, r["iso_code"], "people_vaccinated", pv)
           /\ IsGroupMax(src, r["iso_code"], "people_fully_vaccinated", pf)
           /\ IF IsNaN(pv) \/ IsNaN(pf) THEN IsNaN(pp)
              ELSE /\ pp.d > 0
                   /\ pp.n * pv.d * pf.d = (pv.n * pf.d - pf.n * pv.d) * pp.d

\* C5: people_partly_vaccinated of every snapshot row is people_vaccinated
\* minus people_fully_vaccinated of that row, both the per-region maxima,
\* and null when either is null
C5_PartlyIsExactDifference ==
    /\ SnapshotBuilt => PartlyIsDifference(world_vax, csv)
    /\ ContinentBuilt => PartlyIsDifference(vpc_world, owid) /\ PartlyIsDifference(cont_vax, owid)

\* a snapshot row whose two counters come from different source rows, with
\* a positive difference, next to a row whose difference is null
C5_Witness ==
    /\ SnapshotBuilt
    /\ \E i, k \in 1..Len(world_vax.rows) :
          /\ world_vax.rows[i]["people_partly_vaccinated"] = Num(1)
          /\ ~\E j \in 1..Len(csv.rows) :
                /\ csv.rows[j]["iso_code"] = world_vax.rows[i]["iso_code"]
                /\ ~IsNaN(csv.rows[j]["people_vaccinated"])
                /\ ~IsNaN(csv.rows[j]["people_fully_vaccinated"])
          /\ IsNaN(world_vax.rows[k]["people_partly_vaccinated"])

\* C6 as stated: of any two adjacent rows of the snapshot of clean_data the
\* earlier has a people_vaccinated greater than or equal to the later's
C6_AdjacentRowsNonIncreasing ==
    SnapshotBuilt =>
        \A i \in 1..(Len(world_vax.rows) - 1) :
            FLe(world_vax.rows[i + 1]["people_vaccinated"], world_vax.rows[i]["people_vaccinated"])

\* C6 amended: the rows of the snapshot of clean_data with a people_vaccinated
\* come first, non-increasing by people_vaccinated, and the rows whose
\* people_vaccinated is null follow them
C6_NonIncreasingThenNulls ==
    SnapshotBuilt =>
        \A i, j \in 1..Len(world_vax.rows) :
            i < j =>
                LET a == world_vax.rows[i]["people_vaccinated"]
                    b == world_vax.rows[j]["people_vaccinated"]
                IN /\ IsNaN(a) => IsNaN(b)
                   /\ (~IsNaN(a) /\ ~IsNaN(b)) => FLe(b, a)

\* a snapshot that lost a row without a continent, whose region codes were
\* not in descending order of people_vaccinated, and that ends in a row
\* without people_vaccinated
C6_Witness ==
    /\ SnapshotBuilt
    /\ Len(world_vax.rows) < Len(agg.rows)
    /\ \E i, j \in 1..Len(agg.rows) :
          /\ i < j
          /\ agg.rows[i]["continent"] # NA
          /\ agg.rows[j]["continent"] # NA
          /\ FLe(agg.rows[i]["people_vaccinated"], agg.rows[j]["people_vaccinated"])
          /\ agg.rows[i]["people_vaccinated"] # agg.rows[j]["people_vaccinated"]
    /\ Len(world_vax.rows) >= 3
    /\ IsNaN(world_vax.rows[Len(world_vax.rows)]["people_vaccinated"])

\* C7: the two bar traces hold the first min(10, len) rows of the snapshot
\* in snapshot order: the same region names, and the i-th value of each
\* trace is the i-th region's
C7_BarsArePrefix ==
    pc \notin {"clean", "bars"} =>
        LET n == Min(HeadN, Len(world_vax.rows))
        IN /\ Len(trace1.x) = n
           /\ Len(trace1.y) = n
           /\ Len(trace2.y) = n
           /\ trace2.x = trace1.x
           /\ \A i \in 1..n :
                 /\ trace1.x[i] = world_vax.rows[i]["location"]
                 /\ trace1.y[i] = world_vax.rows[i]["people_partly_vaccinated"]
                 /\ trace2.y[i] = world_vax.rows[i]["people_fully_vaccinated"]

\* the bars of a snapshot of more than ten rows
C7_Witness ==
    /\ pc \notin {"clean", "bars"}
    /\ Len(world_vax.rows) > HeadN
    /\ Len(trace1.x) = HeadN
    /\ Len(trace2.y) = HeadN

C9_ContinentViewIsSubsequence ==
    ContinentBuilt =>
        /\ cont_vax.columns = world_vax.columns
        /\ cont_vax.rows = SelectSeq(world_vax.rows, LAMBDA r : r["continent"] = continent)

\* a continent view of two rows or more, out of a snapshot that also holds
\* another continent and the same name spelled in lower case
C9_Witness ==
    /\ ContinentBuilt
    /\ Len(cont_vax.rows) >= 2
    /\ \E i, j \in 1..Len(world_vax.rows) :
          /\ world_vax.rows[i]["continent"] = Lower(continent)
          /\ world_vax.rows[i]["continent"] # continent
          /\ Lower(world_vax.rows[j]["continent"]) # Lower(continent)

\* a holds one row per region code of src, each column of cs the region's
\* maximum over src
OneRowPerRegion(a, src, cs) ==
    /\ Len(a.rows) = Cardinality(SrcCodes(src))
    /\ {a.rows[i]["iso_code"] : i \in 1..Len(a.rows)} = SrcCodes(src)
    /\ \A i \in 1..Len(a.rows) :
          \A c \in Range(cs) : IsGroupMax(src, a.rows[i]["iso_code"], c, a.rows[i][c])

\* C10: before the continent filter the snapshot has exactly one row per
\* region code of the source, each requested column the maximum of its
\* non-null cells over the region's rows, column by column, and null when
\* the region has no non-null cell in the column
C10_OneRowPerRegionWithMaxima ==
    /\ SnapshotBuilt => OneRowPerRegion(agg, csv, cols)
    /\ ContinentBuilt => OneRowPerRegion(vpc_agg, owid, vpc_cols)

\* an aggregated row whose two counters come from different source rows,
\* next to a row with a null counter, out of more source rows than regions
C10_Witness ==
    /\ SnapshotBuilt
    /\ Len(csv.rows) > Len(agg.rows)
    /\ \E i, k \in 1..Len(agg.rows) :
          /\ agg.rows[i]["people_vaccinated"] = Num(2)
          /\ agg.rows[i]["people_fully_vaccinated"] = Num(1)
          /\ ~\E j \in 1..Len(csv.rows) :
                /\ csv.rows[j]["iso_code"] = agg.rows[i]["iso_code"]
                /\ ~IsNaN(csv.rows[j]["people_vaccinated"])
                /\ ~IsNaN(csv.rows[j]["people_fully_vaccinated"])
          /\ IsNaN(agg.rows[k]["people_fully_vaccinated"])
=============================================================================
